---- MODULE Spec2Model ----
(***************************************************************************)
(* pytype/utils.py: the memoize decorator, the per-thread DynamicVar and   *)
(* the AnnotatingDecorator registry, as state machines.                    *)
(***************************************************************************)
EXTENDS Integers, Sequences, FiniteSets, TLC

VARIABLES
  fn,           \* the function to wrap and the key given: memoize(key), f
  wrapped,      \* memoize.__call__(f): "none" before it, then "ok" or what it raised
  memoized,     \* memoize.__call__: memoized = {}      (key -> result)
  shared_dict,  \* memoize.__call__: shared_dict = {}   (argument name -> value)
  log,          \* history: one record per call of the wrapper `call` that ended
  th,           \* per thread, the call of the wrapper it is in: its locals
  local,        \* DynamicVar._local: per thread, the attribute `values` (or unset)
  scopes,       \* history: per thread, the bind() scopes entered and not yet exited
  dynlast,      \* history: the last DynamicVar operation and what it returned
  lookup,       \* AnnotatingDecorator.lookup           (function name -> value)
  registered,   \* history: per function name, the value of its last registration
  reglast       \* history: the last registry operation and what it returned

vars ==
  <<fn, wrapped, memoized, shared_dict, log, th, local, scopes, dynlast, lookup, registered,
    reglast>>
memoVars == <<fn, wrapped, memoized, shared_dict, log, th>>
dynVars == <<local, scopes, dynlast>>
regVars == <<lookup, registered, reglast>>

----------------------------------------------------------------------------
(* Bounds *)

\* the number of calls of one memoized wrapper in a run
MaxCalls == 2

\* argument values passed to the wrapped function
ArgValues == {1, 2}

\* the depth to which one thread nests bind() scopes
MaxDepth == 2

\* the threads that use one DynamicVar, and the values they bind
Threads == {"A", "B"}
BindValues == {"v1", "v2"}

\* the functions given to an AnnotatingDecorator (two of them have one
\* __name__), and the values registered
Functions ==
  {[id |-> 1, name |-> "f"], [id |-> 2, name |-> "g"], [id |-> 3, name |-> "g"],
   [id |-> 4, name |-> "h"]}
Names == {"f", "g", "h", "k"}
RegValues == {"a", "b"}

----------------------------------------------------------------------------
(* Dictionaries: functions with a finite domain *)

EmptyDict == [n \in {} |-> 0]

\* dict.update(new): the entries of new replace those of d
DictUpdate(d, new) == new @@ d

\* dict(zip(names, values)): zip stops at the shorter of the two
Min(a, b) == IF a <= b THEN a ELSE b

ZipDict(names, values) ==
  [n \in {names[i] : i \in 1..Min(Len(names), Len(values))} |->
     values[CHOOSE i \in 1..Min(Len(names), Len(values)) :
              /\ names[i] = n
              /\ \A j \in 1..Min(Len(names), Len(values)) : names[j] = n => j <= i]]

Range(s) == {s[i] : i \in 1..Len(s)}

----------------------------------------------------------------------------
(* memoize *)

\* A key expression: a parenthesised, comma separated list of names.  With two
\* or more names, or none, Python reads it as a tuple; "(x)" and "x" are the
\* bare name.
KeyExpr(names, isTuple) == [names |-> names, tuple |-> isTuple, form |-> "expr"]

\* a key that is a string and no expression, such as "(x,"
MalformedKey == [names |-> <<>>, tuple |-> FALSE, form |-> "malformed"]

\* a key that is no string, such as 42
NonStringKey == [names |-> <<>>, tuple |-> FALSE, form |-> "nonstring"]

\* memoize.__new__ on a function: key = "(" + ", ".join(_arg_names(f)) + ")"
DefaultKey(argnames) == KeyExpr(argnames, Len(argnames) # 1)

\* A wrapped function: its argument names (_arg_names(f)), f.__defaults__ (the
\* values of the last len(__defaults__) arguments), the key of the wrapper, and
\* the values of its first argument for which the body of f raises.
Wrapped(argnames, defaults, key) ==
  [argnames |-> argnames, defaults |-> defaults, key |-> key, raises |-> {}]

\* the same wrapper around a function that raises for these values
Raising(w, values) == [w EXCEPT !.raises = values]

\* @memoize def f(...): memoize.__new__ builds the key from the argument names
MemoizeFunction(argnames, defaults) ==
  Wrapped(argnames, defaults, DefaultKey(argnames))

\* @memoize("...") def f(...): the key is the expression given
MemoizeKey(key, argnames, defaults) == Wrapped(argnames, defaults, key)

\* The wrappers of the model
Wrappers ==
  { MemoizeFunction(<<"x">>, <<>>),                    \* @memoize def f(x)
    MemoizeFunction(<<"x", "y">>, <<>>),               \* @memoize def f(x, y)
    MemoizeFunction(<<"x", "y">>, <<2>>),              \* @memoize def f(x, y=2)
    MemoizeKey(KeyExpr(<<"x">>, FALSE), <<"x", "y">>, <<>>),   \* @memoize("x") def f(x, y)
    MemoizeKey(KeyExpr(<<"x">>, FALSE), <<"x", "y">>, <<2>>),  \* @memoize("x") def f(x, y=2)
    MemoizeKey(KeyExpr(<<"x", "z">>, TRUE), <<"x", "y">>, <<>>), \* @memoize("(x, z)") def f(x, y)
    Raising(MemoizeFunction(<<"x">>, <<>>), {2}),      \* @memoize def f(x): raises if x == 2
    MemoizeKey(MalformedKey, <<"x">>, <<>>),           \* @memoize("(x,") def f(x)
    MemoizeKey(NonStringKey, <<"x">>, <<>>) }          \* @memoize(42) def f(x)

\* (mutant) the defaults zipped with the first arguments, not the last
DefaultsOfFirst(f) ==
  IF Len(f.defaults) > 0
    THEN ZipDict(SubSeq(f.argnames, 1, Len(f.defaults)), f.defaults)
    ELSE EmptyDict

\* defaults = dict(zip(argnames[-len(f.__defaults__):], f.__defaults__)), or {}
Defaults(f) ==
  IF Len(f.defaults) > 0
    THEN ZipDict(SubSeq(f.argnames, Len(f.argnames) - Len(f.defaults) + 1,
                        Len(f.argnames)),
                 f.defaults)
    ELSE EmptyDict

\* (mutant) compile also rejects a name that is no argument of f
CompileCheckingNames(f) ==
  IF f.key.form = "malformed" THEN "SyntaxError"
  ELSE IF f.key.form = "nonstring" THEN "TypeError"
  ELSE IF \E i \in 1..Len(f.key.names) : f.key.names[i] \notin Range(f.argnames)
    THEN "NameError"
  ELSE "ok"

\* compile(self.key, filename=__name__, mode="eval"), in memoize.__call__(f): a
\* SyntaxError for a string that is no expression, a TypeError for a key that
\* is no string; the names of the expression are not looked at
Compile(f) ==
  IF f.key.form = "malformed" THEN "SyntaxError"
  ELSE IF f.key.form = "nonstring" THEN "TypeError"
  ELSE "ok"

\* (mutant) the key of all the arguments is compiled, whatever self.key is
KeyProgramOfArguments(f) == DefaultKey(f.argnames)

\* key_program = compile(self.key, filename=__name__, mode="eval")
KeyProgram(f) == f.key

\* eval(key_program, args): every name of the expression is read in args; a
\* name that is not there is a NameError.
EvalFails(key, args) == \E i \in 1..Len(key.names) : key.names[i] \notin DOMAIN args

Eval(key, args) ==
  [tuple |-> key.tuple, vals |-> [i \in 1..Len(key.names) |-> args[key.names[i]]]]

NoKey == [tuple |-> FALSE, vals |-> <<>>]
NoResult == -1

\* an argument that has no hash, such as a list: memoized.get(key, no_result)
\* raises a TypeError for a key that is, or holds, such a value
Unhashable == 0

Hashable(key) == Unhashable \notin Range(key.vals)

\* Python's own use of f.__defaults__ in a call of f: the values of the last
\* len(__defaults__) parameters
ParamDefaults(f) ==
  [n \in {f.argnames[i] : i \in (Len(f.argnames) - Len(f.defaults) + 1)..Len(f.argnames)}
     |-> f.defaults[(CHOOSE i \in 1..Len(f.argnames) : f.argnames[i] = n)
                      - (Len(f.argnames) - Len(f.defaults))]]

\* Python's binding of f(*posargs, **kwargs): TRUE when f accepts the call
Accepts(f, posargs, kwargs) ==
  /\ Len(posargs) <= Len(f.argnames)
  /\ DOMAIN kwargs \subseteq Range(f.argnames)
  /\ \A i \in 1..Len(f.argnames) :
       \/ i <= Len(posargs) /\ f.argnames[i] \notin DOMAIN kwargs
       \/ i > Len(posargs) /\ f.argnames[i] \in DOMAIN kwargs
       \/ i > Len(posargs) /\ f.argnames[i] \notin DOMAIN kwargs
            /\ f.argnames[i] \in DOMAIN ParamDefaults(f)

\* the values f's parameters get in a call f(*posargs, **kwargs) it accepts
BindArgs(f, posargs, kwargs) ==
  [n \in Range(f.argnames) |->
     IF n \in DOMAIN kwargs THEN kwargs[n]
     ELSE IF \E i \in 1..Len(posargs) : f.argnames[i] = n
       THEN posargs[CHOOSE i \in 1..Len(posargs) : f.argnames[i] = n]
     ELSE ParamDefaults(f)[n]]

\* The wrapped function is pure: its result is a function of its parameters'
\* values, and different values give different results.
RECURSIVE Digits(_, _, _)
Digits(names, bound, i) ==
  IF i = 0 THEN 0 ELSE 10 * Digits(names, bound, i - 1) + bound[names[i]]

F(f, posargs, kwargs) ==
  Digits(f.argnames, BindArgs(f, posargs, kwargs), Len(f.argnames))

\* the body of f raises in the call f(*posargs, **kwargs)
Raises(f, posargs, kwargs) ==
  BindArgs(f, posargs, kwargs)[f.argnames[1]] \in f.raises

\* if kwargs or defaults: the slower version, with a dictionary of its own
SlowPath(f, kwargs) == DOMAIN kwargs # {} \/ DOMAIN Defaults(f) # {}

\* (mutant) the defaults are put in last, over the arguments passed
SlowArgsDefaultsLast(f, posargs, kwargs) ==
  DictUpdate(DictUpdate(ZipDict(f.argnames, posargs), kwargs), Defaults(f))

\* args = defaults.copy(); args.update(dict(zip(argnames, posargs)));
\* args.update(kwargs)
SlowArgs(f, posargs, kwargs) ==
  DictUpdate(DictUpdate(Defaults(f), ZipDict(f.argnames, posargs)), kwargs)

\* for pos, arg in pos_and_arg_tuples: shared_dict[arg] = posargs[pos]
\* The loop stops with an IndexError at the first pos >= len(posargs); what it
\* wrote before stays in shared_dict.
FastFails(f, posargs) == Len(posargs) < Len(f.argnames)

\* (mutant) a name that is in shared_dict keeps the value it has
FastArgsKeepingOld(f, shared, posargs) ==
  DictUpdate(ZipDict(f.argnames, posargs), shared)

FastArgs(f, shared, posargs) == DictUpdate(shared, ZipDict(f.argnames, posargs))

\* the dictionary the key is evaluated in
KeyArgs(f, shared, posargs, kwargs) ==
  IF SlowPath(f, kwargs) THEN SlowArgs(f, posargs, kwargs)
                         ELSE FastArgs(f, shared, posargs)

\* (mutant) the cache is not read: every call is a miss
IsHitNever(memo, key) == FALSE

\* result = memoized.get(key, no_result); if result is no_result: ...
IsHit(memo, key) == key \in DOMAIN memo

\* (mutant) the result is not stored
StoreNothing(memo, key, result) == memo

\* (mutant) memoized.setdefault(key, result): an entry is not replaced
StoreIfAbsent(memo, key, result) ==
  IF key \in DOMAIN memo THEN memo ELSE (key :> result) @@ memo

\* memoized[key] = result
Store(memo, key, result) == DictUpdate(memo, key :> result)

\* (mutant) no_result is stored when f raises
StoreOnRaise(memo, key) == DictUpdate(memo, key :> NoResult)

\* result = f(*posargs, **kwargs) raises: memoized[key] = result is not reached
AfterRaise(memo, key) == memo

Returned(outcome, key, result, invoked, memo, shared) ==
  [outcome |-> outcome, key |-> key, result |-> result, invoked |-> invoked,
   memoized |-> memo, shared_dict |-> shared]

\* call(*posargs, **kwargs), from the state (memo, shared): what it returns or
\* raises, whether it invoked f, and the state it leaves.
Call(f, memo, shared, posargs, kwargs) ==
  LET slow == SlowPath(f, kwargs)
      shared1 == IF slow THEN shared ELSE FastArgs(f, shared, posargs)
      args == KeyArgs(f, shared, posargs, kwargs)
      key == Eval(KeyProgram(f), args)
  IN  IF ~slow /\ FastFails(f, posargs)
        THEN Returned("IndexError", NoKey, NoResult, FALSE, memo, shared1)
      ELSE IF EvalFails(KeyProgram(f), args)
        THEN Returned("NameError", NoKey, NoResult, FALSE, memo, shared1)
      ELSE IF ~Hashable(key)
        THEN Returned("TypeError", key, NoResult, FALSE, memo, shared1)
      ELSE IF IsHit(memo, key)
        THEN Returned("ok", key, memo[key], FALSE, memo, shared1)
      ELSE IF ~Accepts(f, posargs, kwargs)
        THEN Returned("TypeError", key, NoResult, TRUE, AfterRaise(memo, key), shared1)
      ELSE IF Raises(f, posargs, kwargs)
        THEN Returned("ValueError", key, NoResult, TRUE, AfterRaise(memo, key), shared1)
      ELSE Returned("ok", key, F(f, posargs, kwargs), TRUE,
                    Store(memo, key, F(f, posargs, kwargs)), shared1)

\* The calls of the model: every call the wrapped function accepts, two it
\* rejects (no argument at all, one positional argument too many) and, of a
\* function of one argument, the calls with an argument that has no hash.
PosArgs(f) == UNION {[1..n -> ArgValues] : n \in 0..Len(f.argnames)}

KwArgs(f) == UNION {[S -> ArgValues] : S \in SUBSET Range(f.argnames)}

AcceptedCalls(f) ==
  {c \in [posargs : PosArgs(f), kwargs : KwArgs(f)] : Accepts(f, c.posargs, c.kwargs)}

RejectedCalls(f) ==
  {[posargs |-> <<>>, kwargs |-> EmptyDict],
   [posargs |-> [i \in 1..(Len(f.argnames) + 1) |-> 1], kwargs |-> EmptyDict]}

UnhashableCalls(f) ==
  IF Len(f.argnames) = 1
    THEN {[posargs |-> <<Unhashable>>, kwargs |-> EmptyDict],
          [posargs |-> <<>>, kwargs |-> f.argnames[1] :> Unhashable]}
    ELSE {}

Calls(f) == AcceptedCalls(f) \cup RejectedCalls(f) \cup UnhashableCalls(f)

CallsOf == [f \in Wrappers |-> Calls(f)]

\* a thread that is in no call of the wrapper
Idle ==
  [pc |-> "idle", posargs |-> <<>>, kwargs |-> EmptyDict, i |-> 0, vals |-> <<>>,
   key |-> NoKey, alone |-> TRUE, done |-> FALSE]

\* a thread whose call has ended
Done == [Idle EXCEPT !.done = TRUE]

MemoInit ==
  /\ fn \in Wrappers
  /\ wrapped = "none"
  /\ memoized = EmptyDict
  /\ shared_dict = EmptyDict
  /\ log = <<>>
  /\ th = [t \in Threads |-> Idle]

\* memoize(key)(f), or memoize(f): the key is compiled, memoized and
\* shared_dict are created and the wrapper `call` is returned
Wrap ==
  /\ wrapped = "none"
  /\ wrapped' = Compile(fn)
  /\ memoized' = EmptyDict
  /\ shared_dict' = EmptyDict
  /\ UNCHANGED <<fn, log, th, dynVars, regVars>>

\* one call of the wrapper, start to end (the wrapper is called from one thread)
MemoCall(posargs, kwargs) ==
  LET r == Call(fn, memoized, shared_dict, posargs, kwargs)
  IN  /\ wrapped = "ok"
      /\ Len(log) < MaxCalls
      /\ \A t \in Threads : th[t].pc = "idle"
      /\ memoized' = r.memoized
      /\ shared_dict' = r.shared_dict
      /\ log' = Append(log, [posargs |-> posargs, kwargs |-> kwargs,
                             outcome |-> r.outcome, key |-> r.key,
                             result |-> r.result, invoked |-> r.invoked,
                             alone |-> TRUE])
      /\ UNCHANGED <<fn, wrapped, th, dynVars, regVars>>

MemoNext ==
  \/ Wrap
  \/ \E c \in CallsOf[fn] : MemoCall(c.posargs, c.kwargs)

----------------------------------------------------------------------------
(* memoize, called from several threads, once by each thread: a call is a
   sequence of steps, one for each access to memoized or shared_dict, and the
   steps of the threads interleave *)

\* (mutant) the loop writes the first positional argument under every name
WriteArgOfFirst(shared, f, posargs, i) ==
  DictUpdate(shared, f.argnames[i] :> posargs[1])

\* shared_dict[arg] = posargs[pos]
WriteArg(shared, f, posargs, i) ==
  DictUpdate(shared, f.argnames[i] :> posargs[i])

\* a step of thread t: every other thread that is in a call has not run alone
Interleaved(t, new) ==
  [u \in Threads |->
     IF u = t THEN new
     ELSE IF th[u].pc # "idle" THEN [th[u] EXCEPT !.alone = FALSE]
     ELSE th[u]]

\* the call of thread t ends: it returns result, or raises
Ends(t, outcome, key, result, invoked) ==
  /\ log' = Append(log, [posargs |-> th[t].posargs, kwargs |-> th[t].kwargs,
                         outcome |-> outcome, key |-> key, result |-> result,
                         invoked |-> invoked, alone |-> th[t].alone])
  /\ th' = Interleaved(t, Done)

\* thread t calls call(*posargs, **kwargs).  With keyword arguments or defaults
\* the key is evaluated in the call's own dictionary; otherwise the loop over
\* pos_and_arg_tuples is next.
ThreadCalls(t, posargs, kwargs) ==
  LET args == SlowArgs(fn, posargs, kwargs)
      mine == [Idle EXCEPT !.posargs = posargs, !.kwargs = kwargs]
  IN  /\ wrapped = "ok"
      /\ th[t].pc = "idle" /\ ~th[t].done
      /\ IF ~SlowPath(fn, kwargs)
           THEN /\ th' = Interleaved(t, [mine EXCEPT !.pc = "write", !.i = 1])
                /\ UNCHANGED log
         ELSE IF EvalFails(KeyProgram(fn), args)
           THEN /\ log' = Append(log, [posargs |-> posargs, kwargs |-> kwargs,
                                        outcome |-> "NameError", key |-> NoKey,
                                        result |-> NoResult, invoked |-> FALSE,
                                        alone |-> TRUE])
                /\ th' = Interleaved(t, Done)
         ELSE /\ th' = Interleaved(t, [mine EXCEPT !.pc = "get",
                                                   !.key = Eval(KeyProgram(fn), args)])
              /\ UNCHANGED log
      /\ UNCHANGED <<fn, wrapped, memoized, shared_dict, dynVars, regVars>>

\* shared_dict[arg] = posargs[pos], for one (pos, arg) of pos_and_arg_tuples
ThreadWrites(t) ==
  LET i == th[t].i
  IN  /\ th[t].pc = "write"
      /\ IF i > Len(th[t].posargs)
           THEN /\ Ends(t, "IndexError", NoKey, NoResult, FALSE)
                /\ UNCHANGED shared_dict
           ELSE /\ shared_dict' = WriteArg(shared_dict, fn, th[t].posargs, i)
                /\ th' = Interleaved(t,
                            IF i < Len(fn.argnames)
                              THEN [th[t] EXCEPT !.i = i + 1]
                              ELSE [th[t] EXCEPT !.pc = "read", !.i = 1])
                /\ UNCHANGED log
      /\ UNCHANGED <<fn, wrapped, memoized, dynVars, regVars>>

\* eval(key_program, shared_dict): one name of the key is read in shared_dict
ThreadReads(t) ==
  LET i == th[t].i
      names == KeyProgram(fn).names
      vals == Append(th[t].vals, shared_dict[names[i]])
  IN  /\ th[t].pc = "read"
      /\ IF names[i] \notin DOMAIN shared_dict
           THEN Ends(t, "NameError", NoKey, NoResult, FALSE)
           ELSE /\ th' = Interleaved(t,
                            IF i < Len(names)
                              THEN [th[t] EXCEPT !.i = i + 1, !.vals = vals]
                              ELSE [th[t] EXCEPT
                                      !.pc = "get", !.i = 0, !.vals = <<>>,
                                      !.key = [tuple |-> KeyProgram(fn).tuple,
                                               vals |-> vals]])
                /\ UNCHANGED log
      /\ UNCHANGED <<fn, wrapped, memoized, shared_dict, dynVars, regVars>>

\* result = memoized.get(key, no_result): a hit is returned
ThreadGets(t) ==
  /\ th[t].pc = "get"
  /\ IF ~Hashable(th[t].key)
       THEN Ends(t, "TypeError", th[t].key, NoResult, FALSE)
     ELSE IF IsHit(memoized, th[t].key)
       THEN Ends(t, "ok", th[t].key, memoized[th[t].key], FALSE)
       ELSE /\ th' = Interleaved(t, [th[t] EXCEPT !.pc = "store"])
            /\ UNCHANGED log
  /\ UNCHANGED <<fn, wrapped, memoized, shared_dict, dynVars, regVars>>

\* result = f(*posargs, **kwargs); memoized[key] = result; return result
ThreadStores(t) ==
  /\ th[t].pc = "store"
  /\ IF ~Accepts(fn, th[t].posargs, th[t].kwargs)
       THEN /\ Ends(t, "TypeError", th[t].key, NoResult, TRUE)
            /\ memoized' = AfterRaise(memoized, th[t].key)
     ELSE IF Raises(fn, th[t].posargs, th[t].kwargs)
       THEN /\ Ends(t, "ValueError", th[t].key, NoResult, TRUE)
            /\ memoized' = AfterRaise(memoized, th[t].key)
       ELSE /\ memoized' = Store(memoized, th[t].key,
                                  F(fn, th[t].posargs, th[t].kwargs))
            /\ Ends(t, "ok", th[t].key, F(fn, th[t].posargs, th[t].kwargs), TRUE)
  /\ UNCHANGED <<fn, wrapped, shared_dict, dynVars, regVars>>

MemoThreadNext ==
  \/ Wrap
  \/ \E t \in Threads :
       \/ \E c \in CallsOf[fn] : ThreadCalls(t, c.posargs, c.kwargs)
       \/ ThreadWrites(t)
       \/ ThreadReads(t)
       \/ ThreadGets(t)
       \/ ThreadStores(t)

----------------------------------------------------------------------------
(* DynamicVar *)

None == "None"

\* (mutant) a plain attribute, the same for every thread
LocalOfAnyThread(t) == CHOOSE u \in Threads : TRUE

\* self._local = threading.local(): the attributes of the calling thread
LocalOf(t) == t

Unset == [set |-> FALSE, values |-> <<>>]

\* (mutant) a stack with no default
NewStackEmpty == <<>>

\* values = [None]
NewStack == <<None>>

\* _values(): getattr(self._local, "values", None), created when it is None
ValuesOf(loc, t) ==
  IF loc[LocalOf(t)].set
    THEN loc
    ELSE [loc EXCEPT ![LocalOf(t)] = [set |-> TRUE, values |-> NewStack]]

\* values.append(value)
Push(loc, slot, value) ==
  [loc EXCEPT ![slot].values = Append(@, value)]

\* values.pop(): an IndexError on an empty list
Pop(loc, slot) ==
  IF Len(loc[slot].values) = 0
    THEN loc
    ELSE [loc EXCEPT ![slot].values = SubSeq(@, 1, Len(@) - 1)]

PopFails(loc, slot) == Len(loc[slot].values) = 0

\* (mutant) no try/finally: the pop follows the yield, and an error raised by
\* the body skips it
PopOnReturn(loc, slot, how) == IF how = "return" THEN Pop(loc, slot) ELSE loc

\* finally: values.pop(), on the normal exit of the body and on its error exit
PopOnExit(loc, slot, how) == Pop(loc, slot)

\* (mutant) the first entry of the stack, not the last
Bottom(loc, t) ==
  LET values == ValuesOf(loc, t)[LocalOf(t)].values
  IN  IF Len(values) = 0 THEN "IndexError" ELSE values[1]

\* self._values()[-1]: an IndexError on an empty list
Top(loc, t) ==
  LET values == ValuesOf(loc, t)[LocalOf(t)].values
  IN  IF Len(values) = 0 THEN "IndexError" ELSE values[Len(values)]

RemoveAt(s, i) == SubSeq(s, 1, i - 1) \o SubSeq(s, i + 1, Len(s))

DynInit ==
  /\ local = [t \in Threads |-> Unset]
  /\ scopes = [t \in Threads |-> <<>>]
  /\ dynlast = [thread |-> "", op |-> "init", value |-> None, how |-> "",
                result |-> None]

\* with var.bind(value): the scope is entered: values = self._values();
\* values.append(value); yield
BindEnter(t, value) ==
  LET loc == ValuesOf(local, t)
  IN  /\ Len(scopes[t]) < MaxDepth
      /\ local' = Push(loc, LocalOf(t), value)
      /\ scopes' = [scopes EXCEPT ![t] =
                      Append(@, [value |-> value, values |-> LocalOf(t),
                                 before |-> loc[LocalOf(t)].values])]
      /\ dynlast' = [thread |-> t, op |-> "enter", value |-> value, how |-> "",
                     result |-> None]
      /\ UNCHANGED <<memoVars, regVars>>

\* the scope entered i-th of those still active on t is left, by the body
\* returning or by the body raising: finally: values.pop()
BindExit(t, i, how) ==
  /\ i \in 1..Len(scopes[t])
  /\ local' = PopOnExit(local, scopes[t][i].values, how)
  /\ scopes' = [scopes EXCEPT ![t] = RemoveAt(@, i)]
  /\ dynlast' = [thread |-> t, op |-> "exit", value |-> scopes[t][i].value,
                 how |-> how,
                 result |-> IF PopFails(local, scopes[t][i].values)
                              THEN "IndexError" ELSE None]
  /\ UNCHANGED <<memoVars, regVars>>

\* get(): return self._values()[-1]
Get(t) ==
  /\ local' = ValuesOf(local, t)
  /\ dynlast' = [thread |-> t, op |-> "get", value |-> None, how |-> "",
                 result |-> Top(local, t)]
  /\ UNCHANGED <<scopes, memoVars, regVars>>

\* threads that use with-statements: a thread leaves its innermost scope first
DynNext ==
  \E t \in Threads :
    \/ \E v \in BindValues : BindEnter(t, v)
    \/ \E how \in {"return", "raise"} : BindExit(t, Len(scopes[t]), how)
    \/ Get(t)

\* threads that drive the context managers by hand, or hold them in generators:
\* a thread leaves any of the scopes it is in
DynAnyNext ==
  \E t \in Threads :
    \/ \E v \in BindValues : BindEnter(t, v)
    \/ \E i \in 1..MaxDepth, how \in {"return", "raise"} : BindExit(t, i, how)
    \/ Get(t)

----------------------------------------------------------------------------
(* AnnotatingDecorator *)

Absent == "absent"

\* (mutant) a registry that starts with an entry
NewLookupWithEntry == "k" :> "a"

\* self.lookup = {}
NewLookup == EmptyDict

\* (mutant) self.lookup.setdefault(f.__name__, value): an entry is kept
DecorateIfAbsent(d, value, f) ==
  IF f.name \in DOMAIN d THEN d ELSE DictUpdate(d, f.name :> value)

\* decorate(f): self.lookup[f.__name__] = value
Decorate(d, value, f) == DictUpdate(d, f.name :> value)

NoFunction == [id |-> 0, name |-> ""]

\* (mutant) decorate without its return statement
DecorateReturnsNothing(value, f) == NoFunction

\* return f
DecorateReturns(value, f) == f

\* the lookup of a name in the registry, as the specification has it: the value
\* attached, or "absent"
LookupOf(d, name) == IF name \in DOMAIN d THEN d[name] ELSE Absent

RegInit ==
  /\ lookup = NewLookup
  /\ registered = EmptyDict
  /\ reglast = [op |-> "init", name |-> "", value |-> Absent, f |-> NoFunction,
                returned |-> NoFunction, result |-> Absent, previous |-> Absent]

\* register(value)(f); previous is what was under f's name before
Register(value, f) ==
  /\ lookup' = Decorate(lookup, value, f)
  /\ registered' = DictUpdate(registered, f.name :> value)
  /\ reglast' = [op |-> "register", name |-> f.name, value |-> value, f |-> f,
                 returned |-> DecorateReturns(value, f), result |-> Absent,
                 previous |-> LookupOf(lookup, f.name)]
  /\ UNCHANGED <<memoVars, dynVars>>

\* lookup(name)
Lookup(name) ==
  /\ reglast' = [op |-> "lookup", name |-> name, value |-> Absent,
                 f |-> NoFunction, returned |-> NoFunction,
                 result |-> LookupOf(lookup, name), previous |-> Absent]
  /\ UNCHANGED <<lookup, registered, memoVars, dynVars>>

RegNext ==
  \/ \E value \in RegValues, f \in Functions : Register(value, f)
  \/ \E name \in Names : Lookup(name)

----------------------------------------------------------------------------
(* Specifications *)

Init == MemoInit /\ DynInit /\ RegInit

Next == MemoNext \/ DynNext \/ RegNext

Spec == Init /\ [][Next]_vars

\* one memoized wrapper, called from one thread
MemoSpec == Init /\ [][MemoNext]_vars

\* one memoized wrapper, called from several threads
MemoThreadSpec == Init /\ [][MemoThreadNext]_vars

\* one DynamicVar, used by the threads in with-statements
DynSpec == Init /\ [][DynNext]_vars

\* DynamicVar alone, with scopes left in any order
DynAnySpec == Init /\ [][DynAnyNext]_vars

\* one AnnotatingDecorator
RegSpec == Init /\ [][RegNext]_vars

----------------------------------------------------------------------------
(* Properties of memoize *)

\* f accepts the arguments of call i and returns from it, and the arguments
\* have a hash
Accepted(i) ==
  /\ Accepts(fn, log[i].posargs, log[i].kwargs)
  /\ ~Raises(fn, log[i].posargs, log[i].kwargs)
  /\ Unhashable \notin Range(log[i].posargs)
  /\ \A n \in DOMAIN log[i].kwargs : log[i].kwargs[n] # Unhashable

SameArguments(i, j) ==
  /\ log[i].posargs = log[j].posargs
  /\ log[i].kwargs = log[j].kwargs

\* the result of calling f directly with the arguments of call i
Direct(i) == F(fn, log[i].posargs, log[i].kwargs)

\* the values f's parameters have in call i
Bound(i) == BindArgs(fn, log[i].posargs, log[i].kwargs)

\* the names passed in call i, by position or by keyword
Passed(i) ==
  {fn.argnames[k] : k \in 1..Min(Len(log[i].posargs), Len(fn.argnames))}
    \cup DOMAIN log[i].kwargs

KeyNames == Range(fn.key.names)

IgnoredNames == Range(fn.argnames) \ KeyNames

\* the names the key reads that are no argument of f
UndeclaredNames == KeyNames \ Range(fn.argnames)

\* C1: two calls of the wrapper with the same arguments a (arguments f
\* accepts, a key that reads arguments of f) invoke f at most once: the second call does not invoke f and
\* returns what the first returned; when the first call is a cache miss it
\* invokes f, returns f(a) and leaves f(a) stored under the derived key, so the
\* second call returns f(a) too.
C1_Idempotence ==
  \A i, j \in 1..Len(log) :
    (i < j /\ SameArguments(i, j) /\ Accepted(i) /\ UndeclaredNames = {}) =>
      /\ log[i].outcome = "ok" /\ log[j].outcome = "ok"
      /\ ~log[j].invoked
      /\ log[j].result = log[i].result
      /\ log[j].key = log[i].key
      /\ log[i].invoked =>
           /\ log[i].result = Direct(i)
           /\ log[j].result = Direct(j)
           /\ log[i].key \in DOMAIN memoized
           /\ memoized[log[i].key] = Direct(i)

C1_Witness ==
  /\ Len(log) = 2
  /\ SameArguments(1, 2) /\ Accepted(1)
  /\ log[1].invoked /\ ~log[2].invoked
  /\ log[2].result = Direct(1)

\* C2: an entry of the cache is never overwritten and never removed, and a
\* call whose key has an entry returns that entry without invoking f.
C2_FirstCallWins ==
  [][ /\ \A k \in DOMAIN memoized : k \in DOMAIN memoized' /\ memoized'[k] = memoized[k]
      /\ (Len(log') = Len(log) + 1 /\ log'[Len(log')].key \in DOMAIN memoized) =>
           /\ log'[Len(log')].outcome = "ok"
           /\ ~log'[Len(log')].invoked
           /\ log'[Len(log')].result = memoized[log'[Len(log')].key]
           /\ memoized' = memoized ]_vars

C2_Witness ==
  /\ Len(log) = 2
  /\ log[1].key = log[2].key
  /\ log[1].posargs # log[2].posargs
  /\ log[1].invoked /\ ~log[2].invoked
  /\ DOMAIN memoized = {log[1].key}
  /\ memoized[log[1].key] = log[1].result

\* call i leaves a defaulted argument out and call j passes it, with the value
\* of the default, so that f's parameters have the same values in both
OmittedAndExplicit(i, j) ==
  /\ Accepted(i) /\ Accepted(j)
  /\ Bound(i) = Bound(j)
  /\ \E n \in DOMAIN ParamDefaults(fn) : n \notin Passed(i) /\ n \in Passed(j)

\* C3: a call that omits a defaulted argument and a call that passes the
\* default explicitly derive the same key, and the second of the two, in either
\* order, does not invoke f.
C3_DefaultsSameKey ==
  \A i, j \in 1..Len(log) :
    OmittedAndExplicit(i, j) =>
      /\ log[i].outcome = "ok" /\ log[j].outcome = "ok"
      /\ log[i].key = log[j].key
      /\ i < j => ~log[j].invoked
      /\ j < i => ~log[i].invoked

C3_Witness ==
  /\ Len(log) = 2
  /\ fn.argnames = <<"x", "y">> /\ fn.defaults = <<2>>
  /\ \/ /\ log[1].posargs = <<1>> /\ log[2].posargs = <<1, 2>>
     \/ /\ log[1].posargs = <<1, 2>> /\ log[2].posargs = <<1>>
  /\ DOMAIN log[1].kwargs = {} /\ DOMAIN log[2].kwargs = {}
  /\ log[1].invoked /\ ~log[2].invoked
  /\ log[2].result = 12

\* calls i and j agree on every parameter the key reads and differ on one it
\* does not read
AliasedCalls(i, j) ==
  /\ Accepted(i) /\ Accepted(j)
  /\ UndeclaredNames = {}
  /\ \A n \in KeyNames \cap Range(fn.argnames) : Bound(i)[n] = Bound(j)[n]
  /\ \E n \in IgnoredNames : Bound(i)[n] # Bound(j)[n]

\* C4: with a key that ignores a parameter, two calls that agree on what the
\* key reads and differ on the ignored parameter return the same result: the
\* second returns what the first stored and does not invoke f.
C4_NarrowKeyAliasing ==
  \A i, j \in 1..Len(log) :
    (i < j /\ AliasedCalls(i, j)) =>
      /\ log[i].outcome = "ok" /\ log[j].outcome = "ok"
      /\ ~log[j].invoked
      /\ log[j].result = log[i].result

C4_Witness ==
  /\ Len(log) = 2
  /\ AliasedCalls(1, 2)
  /\ log[1].invoked
  /\ log[2].result = Direct(1)
  /\ log[2].result # Direct(2)

----------------------------------------------------------------------------
(* Properties of DynamicVar *)

\* the binding stack of thread t: created, with the default, when t first
\* uses the variable
Stack(t) == IF local[t].set THEN local[t].values ELSE <<None>>

\* the value of the scope t entered last among those it has not left
Innermost(t) ==
  IF Len(scopes[t]) = 0 THEN None ELSE scopes[t][Len(scopes[t])].value

\* C5: on every thread and at every depth of nesting, get() returns the value
\* of the innermost scope the thread has entered and not left, and None when
\* there is none; this holds after a scope was left by an error as well.
C5_ScopeNesting ==
  /\ \A t \in Threads :
       Len(Stack(t)) >= 1 /\ Stack(t)[Len(Stack(t))] = Innermost(t)
  /\ dynlast.op = "get" => dynlast.result = Innermost(dynlast.thread)

C5_Witness ==
  /\ dynlast.op = "exit" /\ dynlast.how = "raise" /\ dynlast.value = "v2"
  /\ Len(scopes[dynlast.thread]) = 1
  /\ scopes[dynlast.thread][1].value = "v1"
  /\ local[dynlast.thread].values = <<None, "v1">>

\* C6: entering a scope pushes its value once, and leaving it, by return or by
\* an error of the body, pops once: the stack of the thread is again the stack
\* it had when the scope was entered.
C6_PushOncePopOnce ==
  [][ \A t \in Threads :
        /\ Len(scopes'[t]) = Len(scopes[t]) + 1 =>
             Stack(t)' = Append(Stack(t), scopes'[t][Len(scopes'[t])].value)
        /\ Len(scopes'[t]) = Len(scopes[t]) - 1 =>
             /\ Len(Stack(t)') = Len(Stack(t)) - 1
             /\ Stack(t)' = scopes[t][Len(scopes[t])].before ]_vars

C6_Witness ==
  /\ dynlast.op = "exit" /\ dynlast.how = "raise"
  /\ scopes[dynlast.thread] = <<>>
  /\ local[dynlast.thread].values = <<None>>
  /\ \E u \in Threads : Len(scopes[u]) = MaxDepth

\* C7: the stack of a thread, once created, is never empty and its first
\* entry is None; get() always finds a last entry.
C7_DefaultNeverPopped ==
  /\ \A t \in Threads :
       local[t].set => Len(local[t].values) >= 1 /\ local[t].values[1] = None
  /\ dynlast.result # "IndexError"

C7_Witness ==
  /\ dynlast.op = "get" /\ dynlast.result = None
  /\ local[dynlast.thread] = [set |-> TRUE, values |-> <<None>>]
  /\ \E u \in Threads : local[u].values = <<None, "v1", "v2">>

\* C8: a step of one thread changes no other thread's stack, and get() on a
\* thread returns None or a value of a scope that this thread has entered and
\* not left.
C8_ThreadIsolation ==
  [][ /\ \A u \in Threads : local'[u] # local[u] => dynlast'.thread = u
      /\ dynlast'.op = "get" =>
           dynlast'.result \in
             {None} \cup {scopes[dynlast'.thread][k].value :
                            k \in 1..Len(scopes[dynlast'.thread])} ]_vars

C8_Witness ==
  /\ dynlast.op = "get" /\ dynlast.thread = "B" /\ dynlast.result = None
  /\ local["A"].values = <<None, "v1">>
  /\ local["B"].values = <<None>>
  /\ scopes["B"] = <<>>

----------------------------------------------------------------------------
(* Properties of AnnotatingDecorator *)

\* C9: register(value)(f) returns f and leaves value under f's name; the
\* lookup of a name that was registered returns the value registered under it.
C9_RegisterThenLookup ==
  /\ reglast.op = "register" =>
       /\ reglast.returned = reglast.f
       /\ reglast.f.name \in DOMAIN lookup
       /\ lookup[reglast.f.name] = reglast.value
  /\ \A n \in DOMAIN registered : n \in DOMAIN lookup /\ lookup[n] = registered[n]
  /\ (reglast.op = "lookup" /\ reglast.name \in DOMAIN registered) =>
       reglast.result = registered[reglast.name]

C9_Witness ==
  /\ reglast.op = "lookup" /\ reglast.name = "f" /\ reglast.result = "b"
  /\ registered = "f" :> "b"

----------------------------------------------------------------------------
(* Properties of memoize called from several threads *)

\* the mapping from parameter name to the argument of call i: the defaults,
\* the positional arguments, the keyword arguments
OwnArgs(i) ==
  DictUpdate(DictUpdate(ParamDefaults(fn), ZipDict(fn.argnames, log[i].posargs)),
             log[i].kwargs)

\* the key that the arguments of call i derive
OwnKey(i) == Eval(fn.key, OwnArgs(i))

\* call i invoked f and stored its result
Wrote(i) == log[i].invoked /\ log[i].outcome = "ok"

\* C12: when two calls with one key both find no entry, both invoke f and both
\* write the entry; neither fails, and the entry is the result written last.
C12_LastWriterWins ==
  \A i, j \in 1..Len(log) :
    (/\ i < j
     /\ Accepted(i) /\ Accepted(j)
     /\ log[i].invoked /\ log[j].invoked
     /\ log[i].key = log[j].key) =>
      /\ log[i].outcome = "ok" /\ log[j].outcome = "ok"
      /\ log[j].key \in DOMAIN memoized
      /\ (\A m \in (j + 1)..Len(log) : ~(Wrote(m) /\ log[m].key = log[j].key)) =>
           memoized[log[j].key] = log[j].result

C12_Witness ==
  /\ Len(log) = 2
  /\ log[1].invoked /\ log[2].invoked
  /\ log[1].key = log[2].key
  /\ log[1].outcome = "ok" /\ log[2].outcome = "ok"
  /\ log[1].result # log[2].result
  /\ DOMAIN memoized = {log[2].key}
  /\ memoized[log[2].key] = log[2].result

\* every entry is the result of a call that derives the entry's key
EntriesUnderOwnKey ==
  \A k \in DOMAIN memoized :
    \E i \in 1..Len(log) :
      /\ Wrote(i) /\ Accepted(i)
      /\ OwnKey(i) = k
      /\ memoized[k] = Direct(i)

\* call i looked up, and wrote, the key its own arguments derive
UsedOwnKey(i) == log[i].outcome = "ok" => log[i].key = OwnKey(i)

\* call i was in the loop over shared_dict while another thread took a step
RacedOnSharedDict(i) == ~log[i].alone /\ ~SlowPath(fn, log[i].kwargs)

\* C13 (as stated): in every reachable state, with calls of several threads
\* interleaved on the fast path, every entry is under the key of the arguments
\* it was computed from and every call uses the key of its own arguments.
C13_EntriesUnderOwnKey ==
  /\ EntriesUnderOwnKey
  /\ \A i \in 1..Len(log) : UsedOwnKey(i)

\* C13 (as amended): a call that did not run the fast path interleaved with
\* another thread (it ran alone, or had keyword arguments or defaults and so a
\* dictionary of its own) uses the key of its own arguments, and when no call
\* was so interleaved every entry is under the key of the arguments it was
\* computed from.
C13_SerialOrSlowUnderOwnKey ==
  /\ \A i \in 1..Len(log) : ~RacedOnSharedDict(i) => UsedOwnKey(i)
  /\ (\A i \in 1..Len(log) : ~RacedOnSharedDict(i)) => EntriesUnderOwnKey

C13_Witness ==
  /\ Len(log) = 2
  /\ ~log[1].alone /\ ~log[2].alone
  /\ DOMAIN log[1].kwargs # {} /\ DOMAIN log[2].kwargs # {}
  /\ Wrote(1) /\ Wrote(2)
  /\ log[1].key # log[2].key
  /\ DOMAIN memoized = {log[1].key, log[2].key}

----------------------------------------------------------------------------
(* Properties of the derived key *)

\* call i took the faster version: no keyword argument, no default
Fast(i) == DOMAIN log[i].kwargs = {} /\ Len(fn.defaults) = 0

\* the key is the one memoize.__new__ builds from the argument names
DefaultRule == fn.key.form = "expr" /\ fn.key.names = fn.argnames

\* the values of the declared parameters of call i, in declared order
BoundValues(i) == [k \in 1..Len(fn.argnames) |-> Bound(i)[fn.argnames[k]]]

\* the key rule evaluated on the values bound in call i
KeyOfBound(i) == Eval(fn.key, Bound(i))

\* a call f accepts, with a key that reads arguments of f, derives the key of
\* the values bound to f's parameters, however they were passed and whatever
\* the calls before it left in shared_dict
KeyOfBoundValuesOnly ==
  \A i \in 1..Len(log) :
    (Accepted(i) /\ UndeclaredNames = {}) =>
      /\ log[i].outcome = "ok"
      /\ log[i].key = KeyOfBound(i)

\* C14 (as stated): the derived key depends only on the values bound to f's
\* parameters, on the fast path as on the slow path, and with the default rule
\* the key is the tuple of the declared parameters' values in declared order.
C14_DefaultKeyIsTuple ==
  /\ KeyOfBoundValuesOnly
  /\ \A i \in 1..Len(log) :
       (Accepted(i) /\ DefaultRule) =>
         log[i].key = [tuple |-> TRUE, vals |-> BoundValues(i)]

\* C14 (as amended): the derived key depends only on the values bound to f's
\* parameters, on the fast path as on the slow path, and with the default rule
\* the key is the tuple of the declared parameters' values in declared order
\* when f declares two or more parameters, and the value of the parameter
\* itself when f declares one.
C14_KeyOfBoundValues ==
  /\ KeyOfBoundValuesOnly
  /\ \A i \in 1..Len(log) :
       (Accepted(i) /\ DefaultRule) =>
         log[i].key = [tuple |-> Len(fn.argnames) # 1, vals |-> BoundValues(i)]

\* f(1, 2) on the fast path stores an entry that f(1, y=2) on the slow path hits
C14_Witness ==
  /\ DefaultRule /\ Len(fn.argnames) = 2
  /\ Len(log) = 2
  /\ Accepted(1) /\ Accepted(2)
  /\ Fast(1) /\ ~Fast(2)
  /\ Bound(1) = Bound(2)
  /\ log[1].invoked /\ ~log[2].invoked
  /\ log[2].outcome = "ok" /\ log[2].result = log[1].result

----------------------------------------------------------------------------
(* Properties of calls that fail *)

\* the arguments of call c hold a value that has no hash
PassedUnhashable(c) ==
  \/ Unhashable \in Range(c.posargs)
  \/ \E n \in DOMAIN c.kwargs : c.kwargs[n] = Unhashable

\* the key of call c cannot be derived, or cannot be looked up: the key reads a
\* name that is no argument of f, an argument the key reads is not passed, or
\* the key holds a value that has no hash
KeyFailure(c) ==
  \/ UndeclaredNames # {}
  \/ /\ DOMAIN c.kwargs = {} /\ Len(fn.defaults) = 0
     /\ Len(c.posargs) < Len(fn.argnames)
  \/ /\ DOMAIN c.kwargs # {} \/ Len(fn.defaults) > 0
     /\ \E n \in KeyNames :
          /\ n \notin DOMAIN ParamDefaults(fn) \cup DOMAIN c.kwargs
          /\ \A k \in 1..Min(Len(c.posargs), Len(fn.argnames)) : fn.argnames[k] # n
  \/ PassedUnhashable(c) /\ KeyNames = Range(fn.argnames)

\* f raises in call c: it does not accept the arguments, or its body raises
FRaises(c) ==
  \/ ~Accepts(fn, c.posargs, c.kwargs)
  \/ Raises(fn, c.posargs, c.kwargs)

\* call i invoked f, and f raised
RaisedInF(i) == log[i].invoked /\ log[i].outcome # "ok"

\* C15: a call that fails leaves the cache as it was.  When f raises, its error
\* reaches the caller and nothing is stored, so that a later call with the same
\* key invokes f again; when the key cannot be derived or has no hash, the call
\* fails without invoking f.
C15_FailedCallLeavesCache ==
  [][ Len(log') = Len(log) + 1 =>
        LET c == log'[Len(log')]
        IN  /\ c.outcome # "ok" => memoized' = memoized
            /\ KeyFailure(c) =>
                 /\ c.outcome \in {"NameError", "IndexError", "TypeError"}
                 /\ ~c.invoked
            /\ (~KeyFailure(c) /\ c.key \notin DOMAIN memoized /\ FRaises(c)) =>
                 /\ c.invoked
                 /\ c.outcome \in {"TypeError", "ValueError"}
                 /\ c.outcome = "ValueError" <=>
                      Accepts(fn, c.posargs, c.kwargs)
            /\ (\E i \in 1..Len(log) :
                  /\ RaisedInF(i) /\ log[i].key = c.key
                  /\ \A m \in (i + 1)..Len(log) : ~(Wrote(m) /\ log[m].key = c.key)
                  /\ ~KeyFailure(c)) =>
                 c.invoked ]_vars

\* f(2) raises in f(2), twice, and the cache stays empty
C15_Witness ==
  /\ Len(log) = 2
  /\ SameArguments(1, 2)
  /\ Accepts(fn, log[1].posargs, log[1].kwargs)
  /\ RaisedInF(1) /\ RaisedInF(2)
  /\ log[1].outcome = "ValueError" /\ log[2].outcome = "ValueError"
  /\ memoized = EmptyDict

----------------------------------------------------------------------------
(* Properties of DynamicVar with scopes left in any order *)

\* the values of the scopes t has entered and not left, in the order entered
ActiveValues(t) == [k \in 1..Len(scopes[t]) |-> scopes[t][k].value]

\* C16: whatever the order in which a thread enters and leaves scopes, leaving
\* a scope removes the value that scope pushed: the stack holds None and the
\* values of the scopes still active, in the order entered, and get() returns
\* the value of the scope entered last among them, or None.
C16_ExitRemovesOwnValue ==
  /\ \A t \in Threads : Stack(t) = <<None>> \o ActiveValues(t)
  /\ dynlast.op = "get" => dynlast.result = Innermost(dynlast.thread)

----------------------------------------------------------------------------
(* Properties of AnnotatingDecorator: registering again *)

\* C17: the registry holds one value for a name.  A registration, also under a
\* name that has an entry, returns the function and puts its value under the
\* name; every other entry stays as it is and none is removed; the lookup of a
\* name returns the value registered last under it.
C17_LastRegistrationWins ==
  [][ /\ reglast'.op = "register" =>
           /\ reglast'.returned = reglast'.f
           /\ DOMAIN lookup' = DOMAIN lookup \cup {reglast'.name}
           /\ lookup'[reglast'.name] = reglast'.value
           /\ \A n \in DOMAIN lookup \ {reglast'.name} : lookup'[n] = lookup[n]
      /\ reglast'.op # "register" => lookup' = lookup
      /\ (reglast'.op = "lookup" /\ reglast'.name \in DOMAIN registered) =>
           reglast'.result = registered[reglast'.name] ]_vars

\* g, registered with "a", is registered again with "b" by the other function
\* named g, and the entry of f stays
C17_Witness ==
  /\ reglast.op = "register" /\ reglast.name = "g" /\ reglast.f.id = 3
  /\ reglast.previous = "a" /\ reglast.value = "b"
  /\ lookup = ("f" :> "a") @@ ("g" :> "b")

====
